---- MODULE Spec2Model ----
(***************************************************************************)
(* A model of generator/generator.go of gnostic-grpc: the translation of a *)
(* surface model (types, methods, symbolic references) into a protobuf     *)
(* FileDescriptorSet, including the recursive resolution of symbolic       *)
(* references and the three package-level variables the runs share.        *)
(*                                                                         *)
(* Strings are TLA+ strings; the Go string functions the generator calls   *)
(* (strings.Split, path.Base, filepath.Ext, strings.Title, strconv.Itoa,   *)
(* sort.Strings, ...) are computed character by character.                 *)
(* A Go *string is a sequence of length 0 (nil) or 1; a nil slice is the   *)
(* empty sequence.                                                         *)
(***************************************************************************)
EXTENDS Integers, Sequences, FiniteSets, TLC

(***************************************************************************)
(* Go strings                                                              *)
(***************************************************************************)

\* The printable ASCII characters in byte order: bytes 32 (the space) to 95,
\* and bytes 97 to 126 (byte 96, the backquote, occurs in no name here).
AsciiLow == " !\"#$%&'()*+,-./0123456789:;<=>?@ABCDEFGHIJKLMNOPQRSTUVWXYZ[\\]^_"

AsciiHigh == "abcdefghijklmnopqrstuvwxyz{|}~"

Lower == "abcdefghijklmnopqrstuvwxyz"

Upper == "ABCDEFGHIJKLMNOPQRSTUVWXYZ"

Digits == "0123456789"

\* s[i-1] of Go, as a string of one character.
CharAt(s, i) == SubSeq(s, i, i)

\* What a call that panics yields in place of its result: the process aborts.
Panic == [panic |-> "runtime error: slice bounds out of range"]

\* The bounds check of s[from-1:] of Go: the low index is beyond len(s).
OutOfRange(s, from) == from > Len(s) + 1

\* s[from-1:] of Go.
Suffix(s, from) ==
  IF OutOfRange(s, from) THEN Panic
  ELSE IF from > Len(s) THEN "" ELSE SubSeq(s, from, Len(s))

\* s[:to] of Go.
Prefix(s, to) == IF to < 1 THEN "" ELSE SubSeq(s, 1, to)

\* The positions of character c in s; x and d are the values of s and c.
Positions(s, c) ==
  UNION { {i \in 1..Len(x) : CharAt(x, i) = d} : x \in {s}, d \in {c} }

\* Whether c is one of the characters of the string set.
IsIn(c, set) == Positions(set, c) # {}

SetMin(S) == CHOOSE x \in S : \A y \in S : x <= y

SetMax(S) == CHOOSE x \in S : \A y \in S : x >= y

\* The byte value of a character.
Ord(c) ==
  IF IsIn(c, AsciiLow) THEN 31 + SetMin(Positions(AsciiLow, c))
  ELSE 96 + SetMin(Positions(AsciiHigh, c))

\* Whether x and y differ first at place i, with the lesser byte in x.
LessAt(x, y, i) ==
  /\ \A j \in 1..(i - 1) : CharAt(x, j) = CharAt(y, j)
  /\ \E c \in {CharAt(x, i)} : \E d \in {CharAt(y, i)} : c # d /\ Ord(c) < Ord(d)

\* a < b of Go strings: bytewise lexicographic order; x and y are the values
\* of a and b.
StrLess(a, b) ==
  \E x \in {a} : \E y \in {b} :
    \/ \E i \in 1..(IF Len(x) < Len(y) THEN Len(x) ELSE Len(y)) : LessAt(x, y, i)
    \/ Len(x) < Len(y) /\ Prefix(y, Len(x)) = x

\* strings.Contains(s, sub)
Contains(s, sub) ==
  \/ Len(sub) = 0
  \/ \E i \in 1..(Len(s) - Len(sub) + 1) : SubSeq(s, i, i + Len(sub) - 1) = sub

\* strings.HasSuffix(s, suffix)
HasSuffix(s, suffix) ==
  /\ Len(s) >= Len(suffix)
  /\ Suffix(s, Len(s) - Len(suffix) + 1) = suffix

\* strings.TrimSuffix(s, suffix)
TrimSuffix(s, suffix) ==
  IF Len(suffix) > 0 /\ HasSuffix(s, suffix)
  THEN Prefix(s, Len(s) - Len(suffix))
  ELSE s

\* strings.Split(s, sep)[0] for a separator of one character.
SplitFirst(s, sep) ==
  IF Positions(s, sep) = {} THEN s ELSE Prefix(s, SetMin(Positions(s, sep)) - 1)

\* unicode.ToUpper of one ASCII character.
UpperChar(c) ==
  IF IsIn(c, Lower) THEN CharAt(Upper, SetMin(Positions(Lower, c))) ELSE c

RECURSIVE ToUpperFrom(_, _)
\* The loop of strings.ToUpper over the characters of s from place i on.
ToUpperFrom(s, i) ==
  IF i > Len(s) THEN ""
  ELSE UpperChar(CharAt(s, i)) \o ToUpperFrom(s, i + 1)

\* strings.ToUpper(s)
ToUpper(s) == ToUpperFrom(s, 1)

\* isSeparator of package strings: ASCII letters, digits and the underscore
\* are no separators, every other ASCII character is one.
isSeparator(c) == ~(IsIn(c, Lower) \/ IsIn(c, Upper) \/ IsIn(c, Digits) \/ c = "_")

RECURSIVE TitleFrom(_, _)
\* strings.Title: the letter that begins a word is mapped to its title case;
\* prev is the previous character (a space before the first one).
TitleFrom(s, prev) ==
  IF Len(s) = 0 THEN ""
  ELSE LET c == CharAt(s, 1)
       IN  (IF isSeparator(prev) THEN UpperChar(c) ELSE c) \o TitleFrom(Suffix(s, 2), c)

\* strings.Title(s)
Title(s) == TitleFrom(s, " ")

RECURSIVE Itoa(_)
\* strconv.Itoa(n) for n >= 0.
Itoa(n) ==
  IF n < 10 THEN CharAt(Digits, n + 1)
  ELSE Itoa(n \div 10) \o CharAt(Digits, (n % 10) + 1)

RECURSIVE TrimSlashes(_)
\* The trailing slashes path.Base strips.
TrimSlashes(s) ==
  IF Len(s) > 0 /\ CharAt(s, Len(s)) = "/" THEN TrimSlashes(Prefix(s, Len(s) - 1)) ELSE s

\* path.Base(p): the last element of the path.
Base(p) ==
  IF Len(p) = 0 THEN "."
  ELSE LET t == TrimSlashes(p)
       IN  IF Len(t) = 0 THEN "/"
           ELSE IF Positions(t, "/") = {} THEN t
           ELSE Suffix(t, SetMax(Positions(t, "/")) + 1)

\* filepath.Ext(p): the suffix beginning at the final dot of the last element.
Ext(p) ==
  LET stops == Positions(p, ".") \cup Positions(p, "/")
  IN  IF stops = {} THEN ""
      ELSE IF CharAt(p, SetMax(stops)) = "." THEN Suffix(p, SetMax(stops)) ELSE ""

\* The place of ss[j] in the sorted order of ss: the number of entries that
\* are less, or equal and not behind it.
RankIn(ss, j) ==
  Cardinality({i \in 1..Len(ss) :
                 StrLess(ss[i], ss[j]) \/ (ss[i] = ss[j] /\ i <= j)})

\* sort.Strings(ss)
SortStrings(ss) ==
  [k \in 1..Len(ss) |-> ss[CHOOSE j \in 1..Len(ss) : RankIn(ss, j) = k]]

(***************************************************************************)
(* Descriptors                                                             *)
(*                                                                         *)
(* A surface-model field is [Name, FieldName, NativeType, Kind, Position,  *)
(* EnumValues], a type [Name, TypeName, Description, Fields], a method     *)
(* [Method, Path, HandlerName, ParametersTypeName, ResponsesTypeName] and  *)
(* a model [Types, Methods, SymbolicReferences].  Position_BODY is the     *)
(* zero value of surface_v1.Position, so a field that sets no position     *)
(* has Position "BODY".                                                    *)
(***************************************************************************)

\* getProtobufTypes: the .proto scalar names and their descriptor types.
getProtobufTypes ==
  ("double" :> "TYPE_DOUBLE") @@ ("float" :> "TYPE_FLOAT") @@
  ("int64" :> "TYPE_INT64") @@ ("uint64" :> "TYPE_UINT64") @@
  ("int32" :> "TYPE_INT32") @@ ("fixed64" :> "TYPE_FIXED64") @@
  ("fixed32" :> "TYPE_FIXED32") @@ ("bool" :> "TYPE_BOOL") @@
  ("string" :> "TYPE_STRING") @@ ("bytes" :> "TYPE_BYTES") @@
  ("uint32" :> "TYPE_UINT32") @@ ("sfixed32" :> "TYPE_SFIXED32") @@
  ("sfixed64" :> "TYPE_SFIXED64") @@ ("sint32" :> "TYPE_SINT32") @@
  ("sint64" :> "TYPE_SINT64")

protoBufScalarTypes == getProtobufTypes

\* getLast(protos)
getLast(protos) == protos[Len(protos)]

\* isDuplicate(ss, s): s is inside ss.
isDuplicate(ss, s) == \E k \in 1..Len(ss) : ss[k] = s

RECURSIVE trimFrom(_, _)
\* The loop of trimAndRemoveDuplicates over the urls left, result so far.
trimFrom(urls, result) ==
  IF urls = <<>> THEN result
  ELSE LET part == SplitFirst(Head(urls), "#")
       IN  trimFrom(Tail(urls),
                    IF isDuplicate(result, part) THEN result ELSE Append(result, part))

\* trimAndRemoveDuplicates(urls)
trimAndRemoveDuplicates(urls) == trimFrom(urls, <<>>)

\* getFieldDescriptorType(nativeType, enumValues)
getFieldDescriptorType(nativeType, enumValues) ==
  IF nativeType \in DOMAIN protoBufScalarTypes THEN protoBufScalarTypes[nativeType]
  ELSE IF enumValues # <<>> THEN "TYPE_ENUM"
  ELSE "TYPE_MESSAGE"

\* setFieldDescriptorLabel: the label of the descriptor of field f.
setFieldDescriptorLabel(f) ==
  IF f.Kind = "ARRAY" \/ Contains(f.NativeType, "map")
  THEN "LABEL_REPEATED" ELSE "LABEL_OPTIONAL"

\* setFieldDescriptorTypeName: the TypeName of a descriptor of type fdType
\* for field f, given the registry generatedMessages (gm).
setFieldDescriptorTypeName(fdType, f, packageName, gm) ==
  IF fdType = "TYPE_MESSAGE"
  THEN <<IF f.NativeType \in DOMAIN gm THEN gm[f.NativeType]
         ELSE packageName \o "." \o f.NativeType>>
  ELSE IF fdType = "TYPE_ENUM" THEN <<f.NativeType>>
  ELSE <<>>

\* buildEnumDescriptorProto(f)
buildEnumDescriptorProto(f) ==
  [Name  |-> f.NativeType,
   Value |-> [k \in 1..Len(f.EnumValues) |->
                [Name |-> ToUpper(f.EnumValues[k]), Number |-> k - 1]]]

\* getTypeNameForMapValueType(valueType)
getTypeNameForMapValueType(valueType) ==
  IF valueType \in DOMAIN protoBufScalarTypes THEN <<>> ELSE <<valueType>>

\* buildKeyValueFields(field): the 'key' and 'value' fields of a map entry;
\* field.NativeType[11:] panics when the type name has fewer than 11 bytes.
buildKeyValueFields(field) ==
  IF OutOfRange(field.NativeType, 12) THEN Panic
  ELSE
    LET valueType == Suffix(field.NativeType, 12)
    IN  << [Name |-> "key", Number |-> 1, Label |-> "LABEL_OPTIONAL",
            Type |-> "TYPE_STRING", TypeName |-> <<>>],
           [Name |-> "value", Number |-> 2, Label |-> "LABEL_OPTIONAL",
            Type |-> getFieldDescriptorType(valueType, field.EnumValues),
            TypeName |-> getTypeNameForMapValueType(valueType)] >>

\* buildMapDescriptorProto(field); the panic of buildKeyValueFields goes
\* through it.
buildMapDescriptorProto(field) ==
  IF OutOfRange(field.NativeType, 12) THEN Panic
  ELSE [Name |-> field.FieldName \o "Entry", Field |-> buildKeyValueFields(field),
        NestedType |-> <<>>, EnumType |-> <<>>, MapEntry |-> TRUE]

\* isRequestParameter(t)
isRequestParameter(t) == Contains(t.Description, t.Name \o " holds parameters to")

\* validatePathParameter(field): TRUE when the warning is logged.
validatePathParameter(field) == field.Kind # "SCALAR"

\* validateQueryParameter(field): TRUE when the warning is logged.
validateQueryParameter(field) ==
  ~(\/ field.Kind = "SCALAR"
    \/ (field.Kind = "ARRAY" /\ field.NativeType \in DOMAIN protoBufScalarTypes)
    \/ field.Kind = "REFERENCE")

\* Whether the field is a map the loop of buildMessagesFromTypes leaves out.
isUnsupportedMap(f) == f.Kind = "MAP" /\ Contains(f.NativeType, "map[string][]")

\* The field descriptor buildMessagesFromTypes makes of field i (from 1) of a
\* type, before the map case.
fieldDescriptorOf(f, i, packageName, gm) ==
  [Number   |-> i,
   Name     |-> f.FieldName,
   Type     |-> getFieldDescriptorType(f.NativeType, f.EnumValues),
   Label    |-> setFieldDescriptorLabel(f),
   TypeName |-> setFieldDescriptorTypeName(
                  getFieldDescriptorType(f.NativeType, f.EnumValues), f, packageName, gm)]

RECURSIVE buildFields(_, _, _, _, _)
\* The loop over t.Fields from field i on, with the message built so far;
\* Panic when buildMapDescriptorProto panics at one of the fields.
buildFields(t, i, packageName, gm, message) ==
  IF i > Len(t.Fields) THEN message
  ELSE
    LET f == t.Fields[i]
        m1 == IF f.EnumValues # <<>>
              THEN [message EXCEPT !.EnumType = Append(@, buildEnumDescriptorProto(f))]
              ELSE message
        fd == fieldDescriptorOf(f, i, packageName, gm)
    IN  IF isUnsupportedMap(f) THEN buildFields(t, i + 1, packageName, gm, m1)
        ELSE IF f.Kind = "MAP" /\ OutOfRange(f.NativeType, 12) THEN Panic
        ELSE IF f.Kind = "MAP"
        THEN buildFields(t, i + 1, packageName, gm,
               [m1 EXCEPT !.NestedType = Append(@, buildMapDescriptorProto(f)),
                          !.Field = Append(@, [fd EXCEPT !.TypeName =
                                                 <<buildMapDescriptorProto(f).Name>>])])
        ELSE buildFields(t, i + 1, packageName, gm, [m1 EXCEPT !.Field = Append(@, fd)])

\* The message descriptor buildMessagesFromTypes makes of type t, or Panic.
buildMessage(t, packageName, gm) ==
  buildFields(t, 1, packageName, gm,
              [Name |-> t.TypeName, Field |-> <<>>, NestedType |-> <<>>,
               EnumType |-> <<>>, MapEntry |-> FALSE])

\* generatedMessages[name] = qualified
register(gm, name, qualified) ==
  [k \in DOMAIN gm \cup {name} |-> IF k = name THEN qualified ELSE gm[k]]

\* The fields of type t the loop of buildMessagesFromTypes reaches: all of
\* them, or those up to the first one at which buildMapDescriptorProto panics.
fieldsReached(t) ==
  LET panics == {j \in 1..Len(t.Fields) :
                   /\ t.Fields[j].Kind = "MAP" /\ ~isUnsupportedMap(t.Fields[j])
                   /\ OutOfRange(t.Fields[j].NativeType, 12)}
  IN  IF panics = {} THEN 1..Len(t.Fields) ELSE 1..SetMin(panics)

\* The warnings the validation of type t logs: the names of the fields.
warningsOf(t) ==
  IF ~isRequestParameter(t) THEN {}
  ELSE {t.Fields[k].Name : k \in {j \in fieldsReached(t) :
          \/ t.Fields[j].Position = "PATH" /\ validatePathParameter(t.Fields[j])
          \/ t.Fields[j].Position = "QUERY" /\ validateQueryParameter(t.Fields[j])}}

\* nextServiceName with the counter appended from the first collision on.
nextServiceNameCounted(serviceName, ctr) ==
  serviceName \o "Service" \o Itoa(ctr)

\* The name findValidServiceName tries after ctr collisions.
nextServiceName(serviceName, ctr) ==
  serviceName \o "Service" \o (IF ctr > 0 THEN Itoa(ctr) ELSE "")

RECURSIVE findValidFrom(_, _, _, _)
\* The loop of findValidServiceName.
findValidFrom(messageNames, serviceName, validServiceName, ctr) ==
  IF validServiceName \notin messageNames THEN validServiceName
  ELSE findValidFrom(messageNames, serviceName, nextServiceName(serviceName, ctr), ctr + 1)

\* findValidServiceName(messages, serviceName)
findValidServiceName(messages, serviceName) ==
  findValidFrom({messages[k].Name : k \in 1..Len(messages)}, serviceName, serviceName, 0)

\* getRequestBodyForRequestParameters(name, types): the last type named
\* 'name' decides; the result is nil or the name of its first BODY field.
getRequestBodyForRequestParameters(name, types) ==
  LET named == {k \in 1..Len(types) : types[k].Name = name}
      fields == IF named = {} THEN <<>> ELSE types[SetMax(named)].Fields
      bodies == {k \in 1..Len(fields) : fields[k].Position = "BODY"}
  IN  IF bodies = {} THEN <<>> ELSE <<fields[SetMin(bodies)].FieldName>>

\* getHttpRuleForMethod(method, body): Pattern is the oneof case that is set
\* ("" when none is), Path its value.
getHttpRuleForMethod(method, body) ==
  LET pattern == CASE method.Method = "GET" -> "Get"
                   [] method.Method = "POST" -> "Post"
                   [] method.Method = "PUT" -> "Put"
                   [] method.Method = "PATCH" -> "Patch"
                   [] method.Method = "DELETE" -> "Delete"
                   [] OTHER -> ""
  IN  [Pattern |-> pattern,
       Path    |-> IF pattern = "" THEN "" ELSE method.Path,
       Body    |-> IF body # <<>> THEN body[1] ELSE ""]

\* The surface-model method after one iteration of the loop of
\* buildServiceFromMethods: 'method' is a pointer into the model.
substituteEmpty(method) ==
  [method EXCEPT
     !.ParametersTypeName = IF @ = "" THEN "google.protobuf.Empty" ELSE @,
     !.ResponsesTypeName = IF @ = "" THEN "google.protobuf.Empty" ELSE @]

\* methodDescriptorOf with the type names read before the substitution.
methodDescriptorUnsubstituted(method, types) ==
  [Name       |-> method.HandlerName,
   InputType  |-> method.ParametersTypeName,
   OutputType |-> method.ResponsesTypeName,
   Options    |-> getHttpRuleForMethod(method,
                    getRequestBodyForRequestParameters(method.ParametersTypeName, types))]

\* The method descriptor one iteration of the loop builds.
methodDescriptorOf(method, types) ==
  [Name       |-> method.HandlerName,
   InputType  |-> substituteEmpty(method).ParametersTypeName,
   OutputType |-> substituteEmpty(method).ResponsesTypeName,
   Options    |-> getHttpRuleForMethod(method,
                    getRequestBodyForRequestParameters(method.ParametersTypeName, types))]

\* Whether an iteration sets shouldRenderEmptyImport.
needsEmpty(method) == method.ParametersTypeName = "" \/ method.ResponsesTypeName = ""

\* buildServiceFromMethods(descr, renderer): the service descriptor, the
\* methods of the model after the loop and whether the flag was set.
buildServiceFromMethods(descr, packageName, model) ==
  [service |-> [Name   |-> findValidServiceName(descr.MessageType, Title(packageName)),
                Method |-> [k \in 1..Len(model.Methods) |->
                              methodDescriptorOf(model.Methods[k], model.Types)]],
   methods |-> [k \in 1..Len(model.Methods) |-> substituteEmpty(model.Methods[k])],
   empty   |-> \E k \in 1..Len(model.Methods) : needsEmpty(model.Methods[k])]

\* The FileDescriptorProto runFileDescriptorSetGenerator starts from.
mainProtoOf(packageName) ==
  [Name |-> packageName \o ".proto", Package |-> packageName, Syntax |-> "proto3",
   Dependency |-> <<>>, MessageType |-> <<>>, Service |-> <<>>, Extension |-> <<>>]

\* The three descriptors buildDependencies makes. Their messages come from
\* the protobuf library and are left out.
foundation ==
  << [Name |-> "google/api/annotations.proto", Package |-> "google.api",
      Syntax |-> "proto3", Dependency |-> <<"google/protobuf/descriptor.proto">>,
      MessageType |-> <<>>, Service |-> <<>>,
      Extension |-> << [Name |-> "http", Number |-> 72295728,
                        Label |-> "LABEL_OPTIONAL", Type |-> "TYPE_MESSAGE",
                        TypeName |-> <<"google.api.HttpRule">>,
                        Extendee |-> ".google.protobuf.MethodOptions"] >>],
     [Name |-> "google/protobuf/empty.proto", Package |-> "google.protobuf",
      Syntax |-> "proto3", Dependency |-> <<>>,
      MessageType |-> <<>>, Service |-> <<>>, Extension |-> <<>>],
     [Name |-> "google/protobuf/descriptor.proto", Package |-> "google.protobuf",
      Syntax |-> "", Dependency |-> <<>>,
      MessageType |-> <<>>, Service |-> <<>>, Extension |-> <<>>] >>

\* prepend with the arguments of append exchanged.
appendAfter(protos, file) == file \o protos

\* fdSet.File = append(protos, fdSet.File...)
prepend(protos, file) == protos \o file

\* buildDependencies(fdSet): the file sequence after it.
buildDependencies(file) == prepend(foundation, file)

\* Whether addDependencies lists file k of the set in the last file.
isListed(file, k, renderEmpty) ==
  /\ k # Len(file)
  /\ (file[k].Name = "google/protobuf/empty.proto" => renderEmpty)

RECURSIVE dependenciesFrom(_, _, _, _)
\* The loop of addDependencies from file k on, the list so far.
dependenciesFrom(file, k, renderEmpty, deps) ==
  IF k > Len(file) THEN deps
  ELSE dependenciesFrom(file, k + 1, renderEmpty,
         IF isListed(file, k, renderEmpty) THEN Append(deps, file[k].Name) ELSE deps)

\* The order addDependencies leaves the dependency list in.
sortDependencies(deps) == SortStrings(deps)

\* addDependencies(fdSet): the file sequence after it.
addDependencies(file, renderEmpty) ==
  [file EXCEPT ![Len(file)].Dependency =
     sortDependencies(dependenciesFrom(file, 1, renderEmpty, @))]

\* The package of the recursive renderer of reference ref.
packageOf(ref) ==
  CHOOSE package \in {TrimSuffix(fileName, Ext(fileName)) : fileName \in {Base(ref)}} : TRUE

\* markGenerated with the mark left out: the reference stays unresolved
\* while its document is translated.
markNothing(generated, ref) == generated

\* generatedSymbolicReferences[ref] = true, before the collaborator is called.
markGenerated(generated, ref) == generated \cup {ref}

(***************************************************************************)
(* Inputs: the documents the collaborator serves and the top-level calls   *)
(***************************************************************************)

\* The number of top-level runs of one process.
MaxRuns == 2

\* The number of names of the service-name sequence the messages may take.
MaxTaken == 3

Fld(name, nativeType, kind, position, enumValues) ==
  [Name |-> name, FieldName |-> name, NativeType |-> nativeType, Kind |-> kind,
   Position |-> position, EnumValues |-> enumValues]

Typ(name, description, fields) ==
  [Name |-> name, TypeName |-> name, Description |-> description, Fields |-> fields]

Mth(verb, urlPath, handler, parameters, responses) ==
  [Method |-> verb, Path |-> urlPath, HandlerName |-> handler,
   ParametersTypeName |-> parameters, ResponsesTypeName |-> responses]

\* a.yaml: references b.yaml (twice, by fragment) and x.yaml; its method
\* names both its types.
DocA ==
  [Types |-> <<
     Typ("Owner", "", << Fld("name", "string", "SCALAR", "BODY", <<>>),
                         Fld("pet", "Pet", "REFERENCE", "BODY", <<>>) >>),
     Typ("Pet", "", << Fld("name", "string", "SCALAR", "BODY", <<>>),
                       Fld("status", "Status", "SCALAR", "BODY", <<"available", "sold">>),
                       Fld("tags", "Tag", "ARRAY", "BODY", <<>>) >>),
     Typ("CreatePetParameters", "CreatePetParameters holds parameters to CreatePet",
         << Fld("dry", "bool", "SCALAR", "QUERY", <<>>),
            Fld("pet", "Pet", "REFERENCE", "BODY", <<>>) >>) >>,
   Methods |-> << Mth("POST", "/pets", "CreatePet", "CreatePetParameters", "Pet") >>,
   SymbolicReferences |-> << "r/b.yaml#/Pet", "r/b.yaml#/Owner", "r/x.yaml" >>]

\* b.yaml: references x.yaml and, closing a cycle, a.yaml; its method has
\* no parameter type.
DocB ==
  [Types |-> <<
     Typ("Pet", "", << Fld("id", "int64", "SCALAR", "BODY", <<>>),
                       Fld("tag", "Tag", "REFERENCE", "BODY", <<>>) >>) >>,
   Methods |-> << Mth("GET", "/pets", "ListPets", "", "Pet") >>,
   SymbolicReferences |-> << "r/x.yaml#/Tag", "r/a.yaml#/Owner" >>]

\* x.yaml: no methods, a type with maps, a reference to e.yaml.
DocX ==
  [Types |-> <<
     Typ("Tag", "", << Fld("labels", "map[string][]string", "MAP", "BODY", <<>>),
                       Fld("name", "string", "SCALAR", "BODY", <<>>),
                       Fld("attrs", "map[string]int32", "MAP", "BODY", <<>>),
                       Fld("owners", "map[string]Owner", "MAP", "BODY", <<>>) >>) >>,
   Methods |-> << >>,
   SymbolicReferences |-> << "r/e.yaml" >>]

\* e.yaml: the collaborator writes nothing; the decoding ends in "unexpected
\* EOF", which createOpenAPIDocFromGnosticOutput takes for an empty document.
DocE == [Types |-> << >>, Methods |-> << >>, SymbolicReferences |-> << >>]

\* s.yaml: references itself; its types take the first two service names,
\* and its parameter type S has a query parameter that is an array of messages.
DocS ==
  [Types |-> <<
     Typ("S", "S holds parameters to PutS",
         << Fld("id", "int64", "SCALAR", "PATH", <<>>),
            Fld("tags", "Tag", "ARRAY", "QUERY", <<>>),
            Fld("body", "SService", "REFERENCE", "BODY", <<>>) >>),
     Typ("SService", "", << Fld("s", "S", "REFERENCE", "BODY", <<>>) >>) >>,
   Methods |-> << Mth("PUT", "/s", "PutS", "S", ""),
                  Mth("HEAD", "/s", "HeadS", "", "") >>,
   SymbolicReferences |-> << "r/s.yaml#/S", "r/s.yaml#/SService" >>]

\* m.yaml: its second type has a map whose type name is too short to hold a
\* value type.
DocM ==
  [Types |-> <<
     Typ("Key", "", << Fld("id", "string", "SCALAR", "BODY", <<>>) >>),
     Typ("M", "M holds parameters to GetM",
         << Fld("keys", "Key", "ARRAY", "QUERY", <<>>),
            Fld("index", "map", "MAP", "BODY", <<>>),
            Fld("tags", "Key", "ARRAY", "QUERY", <<>>) >>) >>,
   Methods |-> << Mth("GET", "/m", "GetM", "M", "Key") >>,
   SymbolicReferences |-> << >>]

\* The surface model built from what the collaborator returns for a URL.
Documents ==
  ("r/a.yaml" :> DocA) @@ ("r/b.yaml" :> DocB) @@ ("r/x.yaml" :> DocX) @@
  ("r/s.yaml" :> DocS) @@ ("r/e.yaml" :> DocE)

\* The top-level calls: a package and a surface model.
Inputs ==
  { [Package |-> "a", Model |-> DocA], [Package |-> "b", Model |-> DocB],
    [Package |-> "x", Model |-> DocX], [Package |-> "s", Model |-> DocS],
    [Package |-> "m", Model |-> DocM] }

\* Entry k of the sequence <Name>, <Name>Service, <Name>Service1, ...
Candidate(name, k) ==
  IF k = 0 THEN name
  ELSE IF k = 1 THEN name \o "Service"
  ELSE name \o "Service" \o Itoa(k - 1)

LeafPackages == {"pets", "pet-store"}

\* The type names of the leaf documents: the first names of the sequence
\* and one name outside it.
NamePool(p) == {Candidate(Title(p), k) : k \in 0..MaxTaken} \cup {"Pet"}

RECURSIVE SeqOfSet(_)
SeqOfSet(S) ==
  IF S = {} THEN <<>>
  ELSE LET m == CHOOSE a \in S : \A b \in S : a = b \/ StrLess(a, b)
       IN  <<m>> \o SeqOfSet(S \ {m})

LeafTypes(names) ==
  [k \in 1..Len(SeqOfSet(names)) |->
     Typ(SeqOfSet(names)[k], "", << Fld("name", "string", "SCALAR", "BODY", <<>>) >>)]

LeafMethods ==
  { Mth(verb, "/pets", "Handle", parameters, responses) :
      verb \in {"GET", "POST", "HEAD"},
      parameters \in {"", "Pet"},
      responses \in {"", "Pet"} }

\* Documents without references: every set of type names, one method.
LeafInputs ==
  UNION { { [Package |-> p,
             Model |-> [Types |-> LeafTypes(names), Methods |-> <<m>>,
                        SymbolicReferences |-> <<>>]] :
              names \in SUBSET NamePool(p), m \in LeafMethods } :
          p \in LeafPackages }

(***************************************************************************)
(* State                                                                   *)
(***************************************************************************)

VARIABLES
  generatedSymbolicReferences, \* the package-level set of resolved URLs
  generatedMessages,           \* the package-level map: type name -> qualified name
  shouldRenderEmptyImport,     \* the package-level flag
  stack,                       \* the activations of runFileDescriptorSetGenerator
  calls,                       \* the URLs given to the collaborator in this run
  results                      \* what each finished top-level run returned

vars == <<generatedSymbolicReferences, generatedMessages, shouldRenderEmptyImport,
          stack, calls, results>>

\* The activation on top of the stack.
top == stack[Len(stack)]

\* The stack with its top activation replaced.
withTop(frame) == [stack EXCEPT ![Len(stack)] = frame]

\* The activation of runFileDescriptorSetGenerator up to the loop of
\* buildSymbolicReferences: main is the place of mainProto in File, Input the
\* model as it was handed in, resolved the references resolved here, warnings
\* the fields the validation logged.
enter(packageName, model) ==
  [Package |-> packageName, Model |-> model, Input |-> model, SymbolicFdSets |-> <<>>,
   File |-> buildDependencies(<<mainProtoOf(packageName)>>),
   main |-> Len(foundation) + 1,
   refs |-> trimAndRemoveDuplicates(model.SymbolicReferences),
   i |-> 1, sym |-> <<>>, resolved |-> <<>>, t |-> 1, warnings |-> {}, pc |-> "refs"]

Init ==
  /\ generatedSymbolicReferences = {}
  /\ generatedMessages = << >>
  /\ shouldRenderEmptyImport = FALSE
  /\ stack = << >>
  /\ calls = << >>
  /\ results = << >>

(***************************************************************************)
(* Actions                                                                 *)
(***************************************************************************)

\* A top-level call of runFileDescriptorSetGenerator with one of 'inputs'.
RunWith(inputs) ==
  /\ stack = << >>
  /\ \E in \in inputs :
       stack' = << enter(in.Package, in.Model) >>
  /\ calls' = << >>
  /\ UNCHANGED <<generatedSymbolicReferences, generatedMessages,
                 shouldRenderEmptyImport, results>>

Run ==
  /\ Len(results) < MaxRuns
  /\ RunWith(Inputs)

\* A top-level call on the model object an earlier call was given.
RunAgain ==
  /\ Len(results) < MaxRuns
  /\ RunWith({[Package |-> results[r].Package, Model |-> results[r].Model] :
               r \in 1..Len(results)})

\* The loop of buildSymbolicReferences at a reference already generated.
SkipReference ==
  /\ stack # << >>
  /\ top.pc = "refs"
  /\ top.i <= Len(top.refs)
  /\ top.refs[top.i] \in generatedSymbolicReferences
  /\ stack' = withTop([top EXCEPT !.i = @ + 1])
  /\ UNCHANGED <<generatedSymbolicReferences, generatedMessages,
                 shouldRenderEmptyImport, calls, results>>

\* The loop at a new reference: it is marked, the collaborator returns its
\* document and the generator is called on the surface model of it.
ResolveReference ==
  /\ stack # << >>
  /\ top.pc = "refs"
  /\ top.i <= Len(top.refs)
  /\ top.refs[top.i] \notin generatedSymbolicReferences
  /\ top.refs[top.i] \in DOMAIN Documents
  /\ generatedSymbolicReferences' = markGenerated(generatedSymbolicReferences, top.refs[top.i])
  /\ calls' = Append(calls, top.refs[top.i])
  /\ stack' = Append(stack, enter(packageOf(top.refs[top.i]), Documents[top.refs[top.i]]))
  /\ UNCHANGED <<generatedMessages, shouldRenderEmptyImport, results>>

\* The loop at a new reference: it is marked, and the collaborator or the
\* decoding of its output fails; every activation returns the error.
ResolveFails ==
  /\ stack # << >>
  /\ top.pc = "refs"
  /\ top.i <= Len(top.refs)
  /\ top.refs[top.i] \notin generatedSymbolicReferences
  /\ generatedSymbolicReferences' = markGenerated(generatedSymbolicReferences, top.refs[top.i])
  /\ calls' = Append(calls, top.refs[top.i])
  /\ results' = Append(results,
       [Package |-> stack[1].Package, Input |-> stack[1].Input,
        Model |-> stack[1].Model, err |-> TRUE, File |-> << >>, calls |-> calls'])
  /\ stack' = << >>
  /\ UNCHANGED <<generatedMessages, shouldRenderEmptyImport>>

\* The end of buildSymbolicReferences: the descriptors of the references
\* resolved here go before the files of the set.
FinishReferences ==
  /\ stack # << >>
  /\ top.pc = "refs"
  /\ top.i > Len(top.refs)
  /\ stack' = withTop([top EXCEPT !.File = prepend(top.sym, @),
                                  !.main = @ + Len(top.sym),
                                  !.pc = "messages"])
  /\ UNCHANGED <<generatedSymbolicReferences, generatedMessages,
                 shouldRenderEmptyImport, calls, results>>

\* One iteration of the loop of buildMessagesFromTypes over the types.
BuildMessage ==
  /\ stack # << >>
  /\ top.pc = "messages"
  /\ top.t <= Len(top.Model.Types)
  /\ buildMessage(top.Model.Types[top.t], top.Package, generatedMessages) # Panic
  /\ LET message == buildMessage(top.Model.Types[top.t], top.Package, generatedMessages)
     IN  /\ stack' = withTop([top EXCEPT !.File[top.main].MessageType = Append(@, message),
                                         !.warnings = @ \cup warningsOf(top.Model.Types[top.t]),
                                         !.t = @ + 1])
         /\ generatedMessages' =
              register(generatedMessages, message.Name, top.Package \o "." \o message.Name)
  /\ UNCHANGED <<generatedSymbolicReferences, shouldRenderEmptyImport, calls, results>>

\* An iteration of the loop over the types that panics in
\* buildKeyValueFields: nothing recovers, the process aborts where it stands.
BuildMessagePanics ==
  /\ stack # << >>
  /\ top.pc = "messages"
  /\ top.t <= Len(top.Model.Types)
  /\ buildMessage(top.Model.Types[top.t], top.Package, generatedMessages) = Panic
  /\ stack' = withTop([top EXCEPT !.warnings = @ \cup warningsOf(top.Model.Types[top.t]),
                                  !.pc = "panic"])
  /\ UNCHANGED <<generatedSymbolicReferences, generatedMessages,
                 shouldRenderEmptyImport, calls, results>>

\* buildServiceFromMethods, after the last type.
BuildService ==
  /\ stack # << >>
  /\ top.pc = "messages"
  /\ top.t > Len(top.Model.Types)
  /\ LET built == buildServiceFromMethods(top.File[top.main], top.Package, top.Model)
     IN  /\ stack' = withTop([top EXCEPT !.File[top.main].Service = << built.service >>,
                                         !.Model.Methods = built.methods,
                                         !.pc = "deps"])
         /\ shouldRenderEmptyImport' = (shouldRenderEmptyImport \/ built.empty)
  /\ UNCHANGED <<generatedSymbolicReferences, generatedMessages, calls, results>>

\* addDependencies(fdSet)
AddDependencies ==
  /\ stack # << >>
  /\ top.pc = "deps"
  /\ stack' = withTop([top EXCEPT !.File = addDependencies(@, shouldRenderEmptyImport),
                                  !.pc = "return"])
  /\ UNCHANGED <<generatedSymbolicReferences, generatedMessages,
                 shouldRenderEmptyImport, calls, results>>

\* The return of a recursive call into the loop of buildSymbolicReferences.
ReturnNested ==
  /\ Len(stack) > 1
  /\ top.pc = "return"
  /\ LET caller == stack[Len(stack) - 1]
     IN  stack' = [SubSeq(stack, 1, Len(stack) - 1) EXCEPT ![Len(stack) - 1] =
           [caller EXCEPT !.SymbolicFdSets = Append(@, top.File),
                          !.sym = Append(@, getLast(top.File)),
                          !.resolved = Append(@, caller.refs[caller.i]),
                          !.i = @ + 1]]
  /\ UNCHANGED <<generatedSymbolicReferences, generatedMessages,
                 shouldRenderEmptyImport, calls, results>>

\* The return of the top-level call.
ReturnTop ==
  /\ Len(stack) = 1
  /\ top.pc = "return"
  /\ results' = Append(results,
       [Package |-> top.Package, Input |-> top.Input, Model |-> top.Model,
        err |-> FALSE, File |-> top.File, calls |-> calls])
  /\ stack' = << >>
  /\ UNCHANGED <<generatedSymbolicReferences, generatedMessages,
                 shouldRenderEmptyImport, calls>>

Next ==
  \/ Run
  \/ RunAgain
  \/ SkipReference
  \/ ResolveReference
  \/ ResolveFails
  \/ FinishReferences
  \/ BuildMessage
  \/ BuildMessagePanics
  \/ BuildService
  \/ AddDependencies
  \/ ReturnNested
  \/ ReturnTop

Spec == Init /\ [][Next]_vars

\* The first top-level call of a process, on a document without references.
RunLeaf ==
  /\ results = << >>
  /\ RunWith(LeafInputs)

NextLeaf ==
  \/ RunLeaf
  \/ FinishReferences
  \/ BuildMessage
  \/ BuildService
  \/ AddDependencies
  \/ ReturnTop

SpecLeaf == Init /\ [][NextLeaf]_vars

\* A step of a call in progress: the statements of the generator run one
\* after the other, and every collaborator call returns (a document or an
\* error).
Step ==
  \/ SkipReference
  \/ ResolveReference
  \/ ResolveFails
  \/ FinishReferences
  \/ BuildMessage
  \/ BuildMessagePanics
  \/ BuildService
  \/ AddDependencies
  \/ ReturnNested
  \/ ReturnTop

\* The process with a call in progress never left standing.
SpecFair == Init /\ [][Next]_vars /\ WF_vars(Step)

(***************************************************************************)
(* Properties                                                              *)
(***************************************************************************)

\* The activations that have built the set they are about to return.
Returning == {k \in 1..Len(stack) : stack[k].pc = "return"}

\* The activations whose service has been built.
ServiceBuilt == {k \in 1..Len(stack) : stack[k].pc \in {"deps", "return"}}

\* The finished top-level runs that returned a descriptor set.
Returned == {r \in 1..Len(results) : ~results[r].err}

\* The number of places of sequence ss that hold s.
Count(ss, s) == Cardinality({k \in 1..Len(ss) : ss[k] = s})

\* Whether ss is in the order of sort.Strings.
IsSorted(ss) == \A k \in 1..(Len(ss) - 1) : ~StrLess(ss[k + 1], ss[k])

\* C1: in the set an activation returns, the file of the current document is
\* the last one, and before it come the descriptors of the references this
\* activation resolved, in the order it resolved them, then the three
\* foundation descriptors.
C1_TargetLast ==
  \A k \in Returning :
    LET f == stack[k]
        n == Len(f.resolved)
    IN  /\ f.main = Len(f.File)
        /\ Len(f.File) = n + Len(foundation) + 1
        /\ getLast(f.File).Name = f.Package \o ".proto"
        /\ getLast(f.File).Package = f.Package
        /\ \A j \in 1..n :
             /\ f.File[j] = getLast(f.SymbolicFdSets[j])
             /\ f.File[j].Name = packageOf(f.resolved[j]) \o ".proto"
        /\ \A j \in 1..Len(foundation) : f.File[n + j] = foundation[j]

\* An activation returns a set with two resolved references before the
\* foundation descriptors.
C1_Witness ==
  \E k \in Returning : Len(stack[k].resolved) >= 2 /\ Len(stack[k].File) = 6

\* C2: in one top-level run no URL goes to the collaborator twice, and every
\* reference of the document of a run that returned a set (fragment removed)
\* was resolved exactly once in that run, with one dependency entry in the
\* file of the activation that resolved it.
C2_ResolvedExactlyOnce ==
  /\ \A k \in 1..Len(calls) : Count(calls, calls[k]) = 1
  /\ \A k \in Returning : \A j \in 1..Len(stack[k].resolved) :
       Count(getLast(stack[k].File).Dependency,
             packageOf(stack[k].resolved[j]) \o ".proto") = 1
  /\ \A r \in Returned :
       \A j \in 1..Len(results[r].Input.SymbolicReferences) :
         Count(results[r].calls,
               SplitFirst(results[r].Input.SymbolicReferences[j], "#")) = 1

\* The part of C2 that holds: no URL goes to the collaborator twice in a run.
C2_AtMostOnce ==
  /\ \A k \in 1..Len(calls) : Count(calls, calls[k]) = 1
  /\ \A r \in 1..Len(results) :
       \A k \in 1..Len(results[r].calls) : Count(results[r].calls, results[r].calls[k]) = 1

\* C3: in every message built, the numbers of the fields are 1..n in order.
C3_FieldNumbersContiguous ==
  \A k \in 1..Len(stack) :
    \A m \in 1..Len(stack[k].File[stack[k].main].MessageType) :
      LET field == stack[k].File[stack[k].main].MessageType[m].Field
      IN  \A j \in 1..Len(field) : field[j].Number = j

\* C4: after addDependencies the dependency list of the last file is sorted
\* and does not hold the name of that file.
C4_SortedWithoutSelf ==
  \A k \in Returning :
    LET last == getLast(stack[k].File)
    IN  /\ IsSorted(last.Dependency)
        /\ Count(last.Dependency, stack[k].Package \o ".proto") = 0

\* The part of C4 that holds: the list is sorted.
C4_Sorted ==
  \A k \in Returning : IsSorted(getLast(stack[k].File).Dependency)

\* The message-kind fields (maps apart) of the message a step appends to the
\* file it builds, as pairs of declared type and type name.
AppendedReferences ==
  IF /\ stack # << >> /\ Len(stack') = Len(stack)
     /\ top.pc = "messages" /\ top.t <= Len(top.Model.Types)
  THEN LET fields == top.Model.Types[top.t].Fields
           built == getLast(stack'[Len(stack)].File[top.main].MessageType).Field
       IN  { <<fields[jn[1]].NativeType, built[jn[2]].TypeName>> :
               jn \in {p \in (1..Len(fields)) \X (1..Len(built)) :
                         /\ fields[p[1]].Kind # "MAP"
                         /\ getFieldDescriptorType(fields[p[1]].NativeType,
                                                   fields[p[1]].EnumValues) = "TYPE_MESSAGE"
                         /\ built[p[2]].Number = p[1]} }
  ELSE {}

\* C5: a registered qualified name is never replaced, and a message-kind
\* field whose declared type is registered gets the registered name.
C5_RegistryStable ==
  [][ /\ \A name \in DOMAIN generatedMessages :
           /\ name \in DOMAIN generatedMessages'
           /\ generatedMessages'[name] = generatedMessages[name]
      /\ \A ref \in AppendedReferences :
           ref[1] \in DOMAIN generatedMessages => ref[2] = <<generatedMessages[ref[1]]>>
    ]_vars

\* The part of C5 that holds: a field gets the name registered when it is built.
C5_FieldsUseRegistry ==
  [][ \A ref \in AppendedReferences :
        ref[1] \in DOMAIN generatedMessages => ref[2] = <<generatedMessages[ref[1]]>>
    ]_vars

\* C6: the last file of a returned set lists google/protobuf/empty.proto only
\* if a method of the model handed in had an empty parameter-type or
\* response-type name, and lists every other file before it.
C6_EmptyOnlyIfNeeded ==
  \A r \in Returned :
    LET file == results[r].File
        deps == getLast(file).Dependency
        methods == results[r].Input.Methods
    IN  /\ Count(deps, "google/protobuf/empty.proto") > 0 =>
             \E m \in 1..Len(methods) :
               methods[m].ParametersTypeName = "" \/ methods[m].ResponsesTypeName = ""
        /\ \A k \in 1..(Len(file) - 1) :
             file[k].Name # "google/protobuf/empty.proto" => Count(deps, file[k].Name) > 0

\* The part of C6 that holds: every other file before the last is listed.
C6_OthersListed ==
  \A r \in Returned :
    \A k \in 1..(Len(results[r].File) - 1) :
      results[r].File[k].Name # "google/protobuf/empty.proto" =>
        Count(getLast(results[r].File).Dependency, results[r].File[k].Name) > 0

\* C7: the service name is no message name of the file and is the first
\* name of <Name>, <Name>Service, <Name>Service1, ... that no message has;
\* the messages keep the names of their types.
C7_ServiceName ==
  \A k \in ServiceBuilt :
    LET descr == stack[k].File[stack[k].main]
        names == {descr.MessageType[m].Name : m \in 1..Len(descr.MessageType)}
        serviceName == descr.Service[1].Name
        types == stack[k].Input.Types
    IN  /\ Len(descr.Service) = 1
        /\ serviceName \notin names
        /\ \E n \in 0..Cardinality(names) :
             /\ serviceName = Candidate(Title(stack[k].Package), n)
             /\ \A j \in 0..(n - 1) : Candidate(Title(stack[k].Package), j) \in names
        /\ Len(descr.MessageType) = Len(types)
        /\ \A m \in 1..Len(types) : descr.MessageType[m].Name = types[m].TypeName

\* The messages take <Name>, <Name>Service and <Name>Service1, and the
\* service is named <Name>Service2.
C7_Witness ==
  \E k \in ServiceBuilt :
    /\ stack[k].File[stack[k].main].Service[1].Name = "PetsService2"
    /\ \E m \in 1..Len(stack[k].File[stack[k].main].MessageType) :
         stack[k].File[stack[k].main].MessageType[m].Name = "PetsService1"

\* C8: two top-level runs of one process on equal inputs that both return a
\* set return equal sets.
C8_RunsIsolated ==
  \A r1 \in Returned : \A r2 \in Returned :
    (results[r1].Package = results[r2].Package /\ results[r1].Input = results[r2].Input)
      => results[r1].File = results[r2].File

\* C9: when a top-level run has returned, with or without an error, the
\* surface model is what it was when it was handed in.
C9_ModelUnchanged ==
  \A r \in 1..Len(results) : results[r].Model = results[r].Input

\* The pattern of the transcoding rule of each verb the generator knows.
RulePattern ==
  ("GET" :> "Get") @@ ("POST" :> "Post") @@ ("PUT" :> "Put") @@
  ("PATCH" :> "Patch") @@ ("DELETE" :> "Delete")

\* The methods of the model handed to activation k that declare a response
\* type and no parameter type.
ResponseOnly(k) ==
  {m \in 1..Len(stack[k].Input.Methods) :
     /\ stack[k].Input.Methods[m].ParametersTypeName = ""
     /\ stack[k].Input.Methods[m].ResponsesTypeName # ""}

\* C10 as stated: such a method gets output type <package>.T, the empty
\* type as input type and the rule of its verb without a body.
C10_OutputQualified ==
  \A k \in ServiceBuilt : \A m \in ResponseOnly(k) :
    LET method == stack[k].Input.Methods[m]
        descr == stack[k].File[stack[k].main].Service[1].Method[m]
    IN  /\ descr.OutputType = stack[k].Package \o "." \o method.ResponsesTypeName
        /\ descr.InputType = "google.protobuf.Empty"
        /\ descr.Options.Body = ""
        /\ method.Method \in DOMAIN RulePattern =>
             /\ descr.Options.Pattern = RulePattern[method.Method]
             /\ descr.Options.Path = method.Path

\* C10 amended: such a method gets as output type the declared name T as it
\* is, the empty type as input type, and the rule of its verb (no rule for a
\* verb the generator does not know) without a body.
C10_OutputAsDeclared ==
  \A k \in ServiceBuilt : \A m \in ResponseOnly(k) :
    LET method == stack[k].Input.Methods[m]
        descr == stack[k].File[stack[k].main].Service[1].Method[m]
    IN  /\ Len(stack[k].File[stack[k].main].Service[1].Method) = Len(stack[k].Input.Methods)
        /\ descr.Name = method.HandlerName
        /\ descr.OutputType = method.ResponsesTypeName
        /\ descr.InputType = "google.protobuf.Empty"
        /\ descr.Options.Body = ""
        /\ IF method.Method \in DOMAIN RulePattern
           THEN /\ descr.Options.Pattern = RulePattern[method.Method]
                /\ descr.Options.Path = method.Path
           ELSE descr.Options.Pattern = "" /\ descr.Options.Path = ""

\* A GET method with response type Pet and no parameter type has been built,
\* in a file that has a message Pet.
C10_Witness ==
  \E k \in ServiceBuilt : \E m \in ResponseOnly(k) :
    /\ stack[k].Input.Methods[m].Method = "GET"
    /\ stack[k].Input.Methods[m].ResponsesTypeName = "Pet"
    /\ stack[k].File[stack[k].main].Service[1].Method[m].OutputType = "Pet"
    /\ \E t \in 1..Len(stack[k].File[stack[k].main].MessageType) :
         stack[k].File[stack[k].main].MessageType[t].Name = "Pet"

\* The fragment-stripped URLs a model references.
UrlsOf(model) ==
  {trimAndRemoveDuplicates(model.SymbolicReferences)[k] :
     k \in 1..Len(trimAndRemoveDuplicates(model.SymbolicReferences))}

RECURSIVE ReachableUrls(_)
\* The URLs reachable from the set 'seen' along the references of the
\* documents.
ReachableUrls(seen) ==
  LET more == seen \cup UNION {UrlsOf(Documents[u]) : u \in seen \cap DOMAIN Documents}
  IN  IF more = seen THEN seen ELSE ReachableUrls(more)

\* The distinct URLs of the graph of documents a model is the root of.
GraphOf(model) == ReachableUrls(UrlsOf(model))

\* The bounds of C11 on the call in progress and on the finished calls: the
\* collaborator calls and the nested activations are no more than the
\* distinct URLs of the graph, and the calls are of URLs of the graph.
C11_Bounded ==
  /\ stack # << >> =>
       /\ Len(calls) <= Cardinality(GraphOf(stack[1].Input))
       /\ Len(stack) - 1 <= Cardinality(GraphOf(stack[1].Input))
       /\ Len(stack) - 1 <= Len(calls)
       /\ \A k \in 1..Len(calls) : calls[k] \in GraphOf(stack[1].Input)
  /\ \A r \in 1..Len(results) :
       Len(results[r].calls) <= Cardinality(GraphOf(results[r].Input))

\* The process has aborted in a panic.
Aborted == stack # << >> /\ top.pc = "panic"

\* C11: a top-level call in progress ends (it returns a set or an error, or
\* the process aborts in a panic), whatever the graph of references,
\* self-references and cycles included; the depth of the recursion and the
\* number of collaborator calls are never more than the number of distinct
\* fragment-stripped URLs of the graph.
C11_Terminates ==
  /\ [] C11_Bounded
  /\ (stack # << >>) ~> (stack = << >> \/ Aborted)

\* A call on a.yaml has returned a set after the collaborator was called on
\* each of the four URLs of its graph, a.yaml (the cycle a -> b -> a) among
\* them.
C11_Witness ==
  \E r \in Returned :
    /\ results[r].Package = "a"
    /\ Len(results[r].calls) = 4
    /\ Cardinality(GraphOf(results[r].Input)) = 4
    /\ Count(results[r].calls, "r/a.yaml") = 1
    /\ Count(results[r].calls, "r/b.yaml") = 1

\* strings.HasPrefix(s, prefix)
HasPrefix(s, prefix) == Len(s) >= Len(prefix) /\ Prefix(s, Len(prefix)) = prefix

\* The type names of the message-kind fields of the messages of file descr
\* that are qualified with a package other than the package of descr.
ForeignTypeNames(descr) ==
  UNION { { descr.MessageType[m].Field[j].TypeName[1] :
              j \in { n \in 1..Len(descr.MessageType[m].Field) :
                        /\ descr.MessageType[m].Field[n].Type = "TYPE_MESSAGE"
                        /\ descr.MessageType[m].Field[n].TypeName # << >>
                        /\ Contains(descr.MessageType[m].Field[n].TypeName[1], ".")
                        /\ ~HasPrefix(descr.MessageType[m].Field[n].TypeName[1],
                                      descr.Package \o ".") } } :
          m \in 1..Len(descr.MessageType) }

\* C12: when a field of a message of the target file of a returned set has a
\* type name qualified with the package of another document, the file of
\* that document is in the set, before the target, and its name is in the
\* dependency list of the target.
C12_QualifiedTypesImported ==
  \A r \in Returned :
    \A name \in ForeignTypeNames(getLast(results[r].File)) :
      \E k \in 1..(Len(results[r].File) - 1) :
        /\ HasPrefix(name, results[r].File[k].Package \o ".")
        /\ Count(getLast(results[r].File).Dependency, results[r].File[k].Name) > 0

====
